---- MODULE Spec2Model ----
(***************************************************************************)
(* A state-machine model of volatile.py: the stock-information loop of     *)
(* load_data, the hierarchy index construction of the main script,         *)
(* define_model, the staged optimizer training, the backtest loop          *)
(* order_selection and the rating step of the main script.                 *)
(***************************************************************************)
EXTENDS Integers, Sequences, FiniteSets, TLC

VARIABLES
    \* the dictionary info shared by order_selection, training and define_model
    info,
    \* order_selection
    orders,        \* parameter orders: the candidate orders, in the given order
    num_days,      \* logp.shape[1]: the number T of days in the price series
    sel_i,         \* number of candidates consumed by the for loop (i of the next one)
    min_loss,      \* local min_loss
    min_order,     \* local min_order: <<>> while unbound, <<order>> once assigned
    count,         \* local count
    stdout,        \* the "Loss value for backtested polynomial model" lines printed
    sel_pc,        \* "idle", "loop", "after_loop", "returned", "raised"
    sel_result,    \* the returned order: <<>> or <<order>>
    sel_logp,      \* the days (columns of logp, from 1) handed to training by the last iteration
    sel_scores,    \* the columns of scores of the last iteration: [step, t, day]
    \* training
    num_steps,     \* parameter num_steps
    num_steps_l,   \* local num_steps_l
    params,        \* phi_m .. psi: [kind: "unset" | "Variable" | "constant", val]
    loss_len,      \* lengths of the loss traces loss_m, loss_s, loss_i, loss
    train_pc,      \* "idle", "start", "market", "sector", "industry", "stock", "return", "done"
    train_result,  \* the returned tuple: <<>> or <<[parameter -> value]>>
    \* define_model called on its own
    def_level,     \* argument level
    def_result,    \* <<>> before the call, then <<result>>
    \* the rating step of the main script
    scores,        \* scores, one per stock (stock s is entry s)
    rank,          \* rank, as 1-based stock numbers
    ranked_scores, \* ranked_scores
    ranked_rating, \* ranked_rating
    rate_pc,       \* "idle", "scored", "ranked", "rated", "raised"
    \* load_data (the stock-information part) and the hierarchy index construction
    tickers,          \* tickers, distinct symbols
    stock_info,       \* the rows of stock_info.csv: [symbol, sector, industry]
    load_i,           \* i of the next iteration of the for loop
    sectors,          \* sectors
    industries,       \* industries
    missing_sector,   \* missing_sector, as <<symbol, name>> pairs in insertion order
    missing_industry, \* missing_industry, likewise
    load_pc,          \* "idle", "loop", "loaded", "indexed"
    \* the main script
    args,             \* the parsed command line: no_plots, save_table, plot_losses
    files,            \* what the run did to each file: "untouched", "written", "removed"
    model,            \* the stock-level model fitted by the final training: <<>> or its nodes
    main_pc           \* "idle", then the block to run next (MainSteps), or "aborted"

sel_vars == <<orders, num_days, sel_i, min_loss, min_order, count, stdout, sel_pc, sel_result,
              sel_logp, sel_scores>>
train_vars == <<num_steps, num_steps_l, params, loss_len, train_pc, train_result>>
def_vars == <<def_level, def_result>>
rate_vars == <<scores, rank, ranked_scores, ranked_rating, rate_pc>>
load_vars == <<tickers, stock_info, load_i, sectors, industries, missing_sector, missing_industry, load_pc>>

main_vars == <<args, files, model, main_pc>>

vars == <<info, sel_vars, train_vars, def_vars, rate_vars, load_vars, main_vars>>

----------------------------------------------------------------------------
(* Bounds *)
MaxOrders == 5      \* longest candidate list explored
MaxLoss == 2        \* finite losses explored are 0..MaxLoss
MaxDays == 7        \* longest price series explored (T)
MaxNumSteps == 5    \* largest small iteration budget explored
MaxVal == 1         \* parameter values explored are 0..MaxVal
MaxGroups == 2      \* largest number of sectors / industries explored
MaxOrder == 3       \* largest polynomial order of a stand-alone basis
MaxStocks == 4      \* largest number of stocks rated
MaxTickers == 3     \* largest number of tickers loaded
MaxNames == 2       \* sector (industry) names the data source can report are 1..MaxNames

----------------------------------------------------------------------------
(* Floating-point losses: a finite non-negative value, +inf or NaN.         *)
(* loss = np.abs(...) is never negative, so -inf does not occur.            *)
Fin(n) == [k |-> "fin", v |-> n]
Inf == [k |-> "inf", v |-> 0]
NaN == [k |-> "nan", v |-> 0]

LossVals == {Fin(n) : n \in 0..MaxLoss} \cup {Inf, NaN}

\* IEEE comparison a > b as Python evaluates it: False whenever an operand is NaN
FloatGt(a, b) ==
    /\ a.k # "nan"
    /\ b.k # "nan"
    /\ \/ a.k = "inf" /\ b.k = "fin"
       \/ a.k = "fin" /\ b.k = "fin" /\ a.v > b.v

----------------------------------------------------------------------------
(* The dictionary info                                                     *)

\* np.linspace(1 / t, 1, t) ** np.arange(order + 1).reshape(-1, 1): its shape
Basis(order, t) == [rows |-> order + 1, cols |-> t]

\* np.linspace(1 / (order + 1), 1, order + 1)[::-1]: entry j is OrderScale[j] / (order + 1)
OrderScale(order) == [j \in 1..(order + 1) |-> order + 2 - j]

Onto(f, n) == \A k \in 0..(n - 1) : \E x \in DOMAIN f : f[x] = k

\* the dictionaries the main script builds for up to MaxGroups stocks
\* (IDs are zero-based, the lists are indexed from 1)
HierInfos ==
    { [tt |-> <<>>, order_scale |-> <<>>,
       num_sectors |-> ns, num_industries |-> ni,
       sector_industries_id |-> sec2ind, industries_id |-> ind,
       sectors_id |-> [x \in DOMAIN ind |-> sec2ind[ind[x] + 1]]] :
      <<ns, ni, sec2ind, ind>> \in
        { q \in UNION { {<<a, b, f, g>> : f \in [1..b -> 0..(a - 1)], g \in [1..n -> 0..(b - 1)]} :
                        <<a, b, n>> \in (1..MaxGroups) \X (1..MaxGroups) \X (1..MaxGroups) } :
            Onto(q[3], q[1]) /\ Onto(q[4], q[2]) } }

\* the dictionary for n stocks, each in an industry and a sector of its own
FlatInfo(n) ==
    [tt |-> <<>>, order_scale |-> <<>>, num_sectors |-> n, num_industries |-> n,
     sector_industries_id |-> [x \in 1..n |-> x - 1], industries_id |-> [x \in 1..n |-> x - 1],
     sectors_id |-> [x \in 1..n |-> x - 1]]

WithBasis(inf, order, t) ==
    [inf EXCEPT !.tt = <<Basis(order, t)>>, !.order_scale = <<OrderScale(order)>>]

----------------------------------------------------------------------------
(* define_model                                                            *)

available_levels == {"market", "sector", "industry", "stock"}

\* a latent node: Normal(loc from node loc, scale = scale2 / 2 (* order_scale for phi))
Latent(name, loc, scale2, rows, cols) ==
    [name |-> name, loc |-> loc, scale2 |-> scale2, scale_of |-> "", shape |-> <<rows, cols>>]

\* the observation node y: Normal(loc = phi . tt, scale = softplus(psi))
Observed(phi, psi, rows, cols) ==
    [name |-> "y", loc |-> phi, scale2 |-> 0, scale_of |-> psi, shape |-> <<rows, cols>>]

\* variant: "stock" missing from the accepted names
LevelCheck_NoStock(level) == level \notin {"market", "sector", "industry"}

LevelCheck(level) == level \notin available_levels

DefineModel(inf, level) ==
    LET tt == inf.tt[1]
        order == Len(inf.order_scale[1]) - 1
        n_s == inf.num_sectors
        n_i == Len(inf.sector_industries_id)
        n == Len(inf.industries_id)
        m_m == << Latent("phi_m", "zeros", 8, 1, order + 1), Latent("psi_m", "zeros", 8, 1, 1) >>
        m_s == << Latent("phi_s", "phi_m", 4, n_s, order + 1), Latent("psi_s", "psi_m", 4, n_s, 1) >>
        m_i == << Latent("phi_i", "phi_s", 2, n_i, order + 1), Latent("psi_i", "psi_s", 2, n_i, 1) >>
        m_k == << Latent("phi", "phi_i", 1, n, order + 1), Latent("psi", "psi_i", 1, n, 1) >>
        y == CASE level = "market" -> Observed("phi_m", "psi_m", 1, tt.cols)
               [] level = "sector" -> Observed("phi_s", "psi_s", n_s, tt.cols)
               [] level = "industry" -> Observed("phi_i", "psi_i", n_i, tt.cols)
               [] OTHER -> Observed("phi", "psi", n, tt.cols)
    IN IF LevelCheck(level)
         THEN [raised |-> "Exception", m |-> <<>>]
         ELSE [raised |-> "",
               m |-> m_m
                     \o (IF level # "market"
                           THEN m_s \o (IF level # "sector"
                                          THEN m_i \o (IF level # "industry" THEN m_k ELSE <<>>)
                                          ELSE <<>>)
                           ELSE <<>>)
                     \o <<y>>]

\* level names tried when define_model is called on its own
LevelNames == available_levels \cup {"", "Market", "stocks", "country", "all"}

DefIdle == def_level = "" /\ def_result = <<>>

DefInit ==
    /\ \E h \in HierInfos, order \in 0..MaxOrder, t \in 1..MaxDays : info = WithBasis(h, order, t)
    /\ def_level \in LevelNames
    /\ def_result = <<>>

DefineModelCall ==
    /\ def_result = <<>>
    /\ info.tt # <<>>
    /\ def_result' = <<DefineModel(info, def_level)>>
    /\ UNCHANGED <<main_vars, info, def_level, sel_vars, train_vars, rate_vars, load_vars>>

----------------------------------------------------------------------------
(* training                                                                *)

DefaultNumSteps == 20000

ParamNames == {"phi_m", "psi_m", "phi_s", "psi_s", "phi_i", "psi_i", "phi", "psi"}
Stages == <<"market", "sector", "industry", "stock">>
Val == 0..MaxVal

\* variant: true division before the ceiling, ceil(num_steps / 4)
NumStepsL_Ceil(n) == (n + 3) \div 4

\* num_steps_l = int(np.ceil(num_steps // 4))
NumStepsL(n) == n \div 4

\* variant: the previous stage's pair is left as tf.Variable objects
Freeze_Skipped(ps, names) == ps

\* phi_x, psi_x = tf.constant(phi_x), tf.constant(psi_x)
Freeze(ps, names) ==
    [p \in ParamNames |-> IF p \in names THEN [ps[p] EXCEPT !.kind = "constant"] ELSE ps[p]]

\* (tf.Variable(tf.zeros_like(model.sample()[a:b][i])) for i in range(2))
ZeroVariables(ps, nodes) ==
    [p \in ParamNames |->
        IF \E j \in DOMAIN nodes : nodes[j].name = p
          THEN [kind |-> "Variable", val |-> 0]
          ELSE ps[p]]

\* the tf.Variable objects the loss closure reads (what minimize trains)
Trainable(ps, closure) == {p \in closure : ps[p].kind = "Variable"}

\* tfp.math.minimize(loss_fn, optimizer, num_steps): n Adam steps on the trainable
\* variables of the loss closure; upd holds the values the steps arrive at
Minimize(ps, closure, n, upd) ==
    [p \in ParamNames |->
        IF n > 0 /\ p \in Trainable(ps, closure)
          THEN [ps[p] EXCEPT !.val = upd[p]]
          ELSE ps[p]]

\* the latents handed to model.log_prob: every node of the model but y
Latents(m) == {m[j].name : j \in 1..(Len(m) - 1)}

TrainIdle ==
    /\ num_steps = 0
    /\ num_steps_l = 0
    /\ params = [p \in ParamNames |-> [kind |-> "unset", val |-> 0]]
    /\ loss_len = [l \in {} |-> 0]
    /\ train_pc = "idle"
    /\ train_result = <<>>

TrainInit ==
    /\ \E n \in 1..MaxGroups, order \in {1, MaxOrder} : info = WithBasis(FlatInfo(n), order, MaxDays)
    /\ num_steps \in (0..MaxNumSteps) \cup {DefaultNumSteps}
    /\ num_steps_l = 0
    /\ params = [p \in ParamNames |-> [kind |-> "unset", val |-> 0]]
    /\ loss_len = [l \in {} |-> 0]
    /\ train_pc = "start"
    /\ train_result = <<>>

\* optimizer = ...; num_steps_l = ...
TrainStart ==
    /\ train_pc = "start"
    /\ num_steps_l' = NumStepsL(num_steps)
    /\ train_pc' = "market"
    /\ UNCHANGED <<main_vars, info, num_steps, params, loss_len, train_result, sel_vars, def_vars, rate_vars, load_vars>>

\* stage k (1..4): define_model, freeze the previous stage's pair, create this
\* stage's pair at zero, minimize
Stage(k) ==
    /\ train_pc = Stages[k]
    /\ LET res == DefineModel(info, Stages[k])
           prev == IF k = 1 THEN {} ELSE {res.m[2 * k - 3].name, res.m[2 * k - 2].name}
           frozen == Freeze(params, prev)
           started == ZeroVariables(frozen, SubSeq(res.m, 2 * k - 1, 2 * k))
       IN /\ res.raised = ""
          /\ \E upd \in [Trainable(started, Latents(res.m)) -> Val] :
                params' = Minimize(started, Latents(res.m), num_steps_l, upd)
    /\ loss_len' = [l \in (DOMAIN loss_len) \cup {Stages[k]} |->
                      IF l = Stages[k] THEN num_steps_l ELSE loss_len[l]]
    /\ train_pc' = IF k = 4 THEN "return" ELSE Stages[k + 1]
    /\ UNCHANGED <<main_vars, info, num_steps, num_steps_l, train_result, sel_vars, def_vars, rate_vars, load_vars>>

MarketStage == Stage(1)
SectorStage == Stage(2)
IndustryStage == Stage(3)
StockStage == Stage(4)

\* return phi_m, psi_m, phi_s, psi_s, phi_i, psi_i, phi, psi
TrainReturn ==
    /\ train_pc = "return"
    /\ train_result' = <<[p \in ParamNames |-> params[p].val]>>
    /\ train_pc' = "done"
    /\ UNCHANGED <<main_vars, info, num_steps, num_steps_l, params, loss_len, sel_vars, def_vars, rate_vars, load_vars>>

TrainNext == TrainStart \/ MarketStage \/ SectorStage \/ IndustryStage \/ StockStage \/ TrainReturn

----------------------------------------------------------------------------
(* order_selection                                                         *)
Patience == 3
Horizon == 5

\* t = logp[:, :-horizon].shape[1]
TruncatedDays(T, horizon) == IF T > horizon THEN T - horizon ELSE 0

\* variant: the whole series is handed to training
DropLast_Whole(T, horizon) == [c \in 1..T |-> c]

\* logp[:, :-horizon]: the days kept, numbered from 1 ([:-0] keeps none)
DropLast(T, horizon) == [c \in 1..TruncatedDays(T, horizon) |-> c]

\* logp[:, -horizon:]: the days kept ([-0:] and a horizon of T or more keep all)
TakeLast(T, horizon) ==
    IF horizon = 0 \/ horizon >= T THEN [c \in 1..T |-> c]
    ELSE [c \in 1..horizon |-> T - horizon + c]

\* np.arange(1, 1 + horizon)
PredSteps(horizon) == [c \in 1..horizon |-> c]

\* scores = (logp_pred - logp[:, -horizon:]) / std_logp_pred, column by column:
\* column c of logp_pred is the forecast at day fraction 1 + step / t
Scores(T, horizon, t) ==
    LET steps == PredSteps(horizon)
        held == TakeLast(T, horizon)
    IN [c \in 1..Len(steps) |-> [step |-> steps[c], t |-> t, day |-> held[c]]]

\* if i > 0 and loss > min_loss  (the branch that counts a failure)
CountsAsFailure(i, loss, best) == i > 0 /\ FloatGt(loss, best)

SelIdle ==
    /\ orders = <<>>
    /\ num_days = 0
    /\ sel_i = 0
    /\ min_loss = Inf
    /\ min_order = <<>>
    /\ count = 0
    /\ stdout = <<>>
    /\ sel_pc = "idle"
    /\ sel_result = <<>>
    /\ sel_logp = <<>>
    /\ sel_scores = <<>>

SelInit ==
    /\ \E n \in 1..MaxGroups : info = FlatInfo(n)
    /\ \E n \in 0..MaxOrders : orders = [j \in 1..n |-> j]
    /\ num_days \in (Horizon + 1)..MaxDays
    /\ sel_i = 0
    /\ min_loss = Inf
    /\ min_order = <<>>
    /\ count = 0
    /\ stdout = <<>>
    /\ sel_pc = "loop"
    /\ sel_result = <<>>
    /\ sel_logp = <<>>
    /\ sel_scores = <<>>

\* one iteration of the for loop: basis, training, backtest loss, bookkeeping, break
SelIter ==
    /\ sel_pc = "loop"
    /\ sel_i < Len(orders)
    /\ \E loss \in LossVals :
         LET order == orders[sel_i + 1]
             fail == CountsAsFailure(sel_i, loss, min_loss)
             count1 == IF fail THEN count + 1 ELSE 0
         IN /\ info' = WithBasis(info, order, TruncatedDays(num_days, Horizon))
            /\ sel_logp' = DropLast(num_days, Horizon)
            /\ sel_scores' = Scores(num_days, Horizon, TruncatedDays(num_days, Horizon))
            /\ stdout' = Append(stdout, [order |-> order, loss |-> loss])
            /\ min_loss' = IF fail THEN min_loss ELSE loss
            /\ min_order' = IF fail THEN min_order ELSE <<order>>
            /\ count' = count1
            /\ sel_pc' = IF count1 = Patience THEN "after_loop" ELSE "loop"
    /\ sel_i' = sel_i + 1
    /\ UNCHANGED <<main_vars, orders, num_days, sel_result, train_vars, def_vars, rate_vars, load_vars>>

\* the code after the loop: print and return min_order (unbound if no candidate ran)
SelReturn ==
    /\ \/ sel_pc = "after_loop"
       \/ sel_pc = "loop" /\ sel_i = Len(orders)
    /\ IF min_order = <<>>
         THEN sel_pc' = "raised" /\ sel_result' = sel_result
         ELSE sel_pc' = "returned" /\ sel_result' = min_order
    /\ UNCHANGED <<main_vars, info, orders, num_days, sel_i, min_loss, min_order, count, stdout,
                   sel_logp, sel_scores,
                   train_vars, def_vars, rate_vars, load_vars>>

SelNext == SelIter \/ SelReturn

----------------------------------------------------------------------------
(* The rating step of the main script                                      *)

\* the keys of st and si, in insertion order
BandNames == <<"HIGHLY BELOW TREND", "BELOW TREND", "ALONG TREND", "ABOVE TREND", "HIGHLY ABOVE TREND">>

\* st = {...}: the stock thresholds
st(band) ==
    CASE band = "HIGHLY BELOW TREND" -> 3
      [] band = "BELOW TREND" -> 2
      [] band = "ALONG TREND" -> 0
      [] band = "ABOVE TREND" -> -2
      [] band = "HIGHLY ABOVE TREND" -> -3

\* variant: the lower edge of ALONG TREND read from its own threshold
InBand_AlongOwnThreshold(band, x) ==
    CASE band = "HIGHLY BELOW TREND" -> x > st("HIGHLY BELOW TREND")
      [] band = "BELOW TREND" -> x <= st("HIGHLY BELOW TREND") /\ x > st("BELOW TREND")
      [] band = "ALONG TREND" -> x <= st("BELOW TREND") /\ x > st("ALONG TREND")
      [] band = "ABOVE TREND" -> x <= st("ABOVE TREND") /\ x > st("HIGHLY ABOVE TREND")
      [] band = "HIGHLY ABOVE TREND" -> x <= st("HIGHLY ABOVE TREND")

\* the conditions handed to np.where for each key of si
InBand(band, x) ==
    CASE band = "HIGHLY BELOW TREND" -> x > st("HIGHLY BELOW TREND")
      [] band = "BELOW TREND" -> x <= st("HIGHLY BELOW TREND") /\ x > st("BELOW TREND")
      [] band = "ALONG TREND" -> x <= st("BELOW TREND") /\ x > st("ABOVE TREND")
      [] band = "ABOVE TREND" -> x <= st("ABOVE TREND") /\ x > st("HIGHLY ABOVE TREND")
      [] band = "HIGHLY ABOVE TREND" -> x <= st("HIGHLY ABOVE TREND")

\* np.where(cond)[0]: the zero-based positions of rs that satisfy the band's condition
Where(band, rs) == {k \in 0..(Len(rs) - 1) : InBand(band, rs[k + 1])}

SetMin(S) == CHOOSE x \in S : \A y \in S : x <= y

\* si = {k: v[0] for k, v in si.items() if len(v) > 0}: keys kept, in order
SiKeys(rs) ==
    LET NonEmpty(band) == Where(band, rs) # {}
    IN SelectSeq(BandNames, NonEmpty)

\* the values of si: the first position of each kept band
SiValues(keys, rs) == [j \in 1..Len(keys) |-> SetMin(Where(keys[j], rs))]

\* list(np.diff(list(si.values()))) + [num_stocks - list(si.values())[-1]]
Repeats(values, n) ==
    [j \in 1..Len(values) |-> IF j < Len(values) THEN values[j + 1] - values[j] ELSE n - values[j]]

RECURSIVE Repeat(_, _, _)
\* np.array(keys).repeat(counts), from key j on
Repeat(keys, counts, j) ==
    IF j > Len(keys) THEN <<>>
    ELSE [x \in 1..counts[j] |-> keys[j]] \o Repeat(keys, counts, j + 1)

RECURSIVE DescendingOrders(_, _)
\* np.argsort(scores)[::-1]: every ordering of the stocks in left that puts their
\* scores in descending order (the order among equal scores is the sort routine's)
DescendingOrders(sc, left) ==
    IF left = {} THEN {<<>>}
    ELSE UNION { {<<s>> \o r : r \in DescendingOrders(sc, left \ {s})} :
                 s \in {x \in left : \A y \in left : sc[x] >= sc[y]} }

\* the scores explored: every threshold of st, the values between them and one
\* value beyond each end
ScoreVals == (st("HIGHLY ABOVE TREND") - 1)..(st("HIGHLY BELOW TREND") + 1)

RateIdle ==
    /\ scores = <<>>
    /\ rank = <<>>
    /\ ranked_scores = <<>>
    /\ ranked_rating = <<>>
    /\ rate_pc = "idle"

RateInit ==
    /\ info = FlatInfo(1)
    /\ \E n \in 1..MaxStocks : scores \in [1..n -> ScoreVals]
    /\ rank = <<>>
    /\ ranked_scores = <<>>
    /\ ranked_rating = <<>>
    /\ rate_pc = "scored"

\* rank = np.argsort(scores)[::-1]; ranked_scores = scores[rank]
RankStocks ==
    /\ rate_pc = "scored"
    /\ \E r \in DescendingOrders(scores, DOMAIN scores) :
          /\ rank' = r
          /\ ranked_scores' = [k \in 1..Len(scores) |-> scores[r[k]]]
    /\ rate_pc' = "ranked"
    /\ UNCHANGED <<main_vars, info, scores, ranked_rating, sel_vars, train_vars, def_vars, load_vars>>

\* st, si and ranked_rating; np.repeat rejects a negative count, [-1] an empty list
RateStocks ==
    /\ rate_pc = "ranked"
    /\ LET keys == SiKeys(ranked_scores)
           counts == Repeats(SiValues(keys, ranked_scores), Len(scores))
       IN IF keys = <<>> \/ \E j \in DOMAIN counts : counts[j] < 0
            THEN rate_pc' = "raised" /\ ranked_rating' = ranked_rating
            ELSE rate_pc' = "rated" /\ ranked_rating' = Repeat(keys, counts, 1)
    /\ UNCHANGED <<main_vars, info, scores, rank, ranked_scores, sel_vars, train_vars, def_vars, load_vars>>

RateNext == RankStocks \/ RateStocks

----------------------------------------------------------------------------
(* load_data: sector and industry of every ticker; the hierarchy indices   *)

\* a name reported by the data source or read from the cache
Name(n) == [kind |-> "name", id |-> n]

\* "NA_sector" + str(i), "NA_industry" + str(i)
PlaceholderFor(i) == [kind |-> "NA", id |-> i]

Names == {Name(n) : n \in 1..MaxNames}

\* the position of a label in sorted order: name 1 sorts before "NA_...", the
\* placeholders sort by index, the other names sort after "NA_..."
LabelKey(l) ==
    IF l.kind = "NA" THEN 1 + l.id
    ELSE IF l.id = 1 THEN 0
    ELSE 1 + MaxTickers + l.id

Range(q) == {q[x] : x \in DOMAIN q}

RECURSIVE SortLabels(_)
\* the labels of a set in ascending order
SortLabels(S) ==
    IF S = {} THEN <<>>
    ELSE LET least == CHOOSE l \in S : \A o \in S : LabelKey(l) <= LabelKey(o)
         IN <<least>> \o SortLabels(S \ {least})

\* np.unique(labels)
Unique(labels) == SortLabels(Range(labels))

\* np.where(u == label)[0][0], zero-based
IndexIn(u, label) == (CHOOSE k \in 1..Len(u) : u[k] = label) - 1

\* the return_index of np.unique: the zero-based first position of label in labels
FirstIndex(labels, label) == (CHOOSE k \in 1..Len(labels) :
                                labels[k] = label /\ \A j \in 1..(k - 1) : labels[j] # label) - 1

\* np.where(stock_info["SYMBOL"].values == tickers[i])[0]
CacheRows(symbol) == {k \in 1..Len(stock_info) : stock_info[k].symbol = symbol}

EmptyInfo ==
    [tt |-> <<>>, order_scale |-> <<>>, num_sectors |-> 0, num_industries |-> 0,
     sector_industries_id |-> <<>>, industries_id |-> <<>>, sectors_id |-> <<>>]

LoadIdle ==
    /\ tickers = <<>>
    /\ stock_info = <<>>
    /\ load_i = 0
    /\ sectors = <<>>
    /\ industries = <<>>
    /\ missing_sector = <<>>
    /\ missing_industry = <<>>
    /\ load_pc = "idle"

\* the state at the start of the for loop: tickers 1..n, a cache with at most one
\* row per symbol
LoadInit ==
    /\ info = EmptyInfo
    /\ \E n \in 1..MaxTickers : tickers = [j \in 1..n |-> j]
    /\ \E cached \in SUBSET (1..MaxTickers) :
         \E sec \in [cached -> Names], ind \in [cached -> Names] :
            stock_info = [k \in 1..Cardinality(cached) |->
                LET sym == CHOOSE c \in cached : Cardinality({d \in cached : d < c}) = k - 1
                IN [symbol |-> sym, sector |-> sec[sym], industry |-> ind[sym]]]
    /\ load_i = 0
    /\ sectors = <<>>
    /\ industries = <<>>
    /\ missing_sector = <<>>
    /\ missing_industry = <<>>
    /\ load_pc = "loop"

\* one iteration of the for loop, ticker found in the cache
LoadFromCache ==
    /\ load_pc = "loop"
    /\ load_i < Len(tickers)
    /\ CacheRows(tickers[load_i + 1]) # {}
    /\ LET row == stock_info[SetMin(CacheRows(tickers[load_i + 1]))]
       IN /\ sectors' = Append(sectors, row.sector)
          /\ industries' = Append(industries, row.industry)
    /\ load_i' = load_i + 1
    /\ UNCHANGED <<main_vars, info, tickers, stock_info, missing_sector, missing_industry, load_pc,
                   sel_vars, train_vars, def_vars, rate_vars>>

\* one iteration of the for loop, ticker not in the cache: the try block runs to
\* its end ("ok"), or raises before sectors.append ("sector"), or raises at
\* info["industry"] after the sector was appended ("industry")
LoadFromSource ==
    /\ load_pc = "loop"
    /\ load_i < Len(tickers)
    /\ CacheRows(tickers[load_i + 1]) = {}
    /\ \E outcome \in {"ok", "sector", "industry"}, sec \in Names, ind \in Names :
         LET sym == tickers[load_i + 1]
             na_s == PlaceholderFor(load_i)
             na_i == PlaceholderFor(load_i)
         IN CASE outcome = "ok" ->
                   /\ sectors' = Append(sectors, sec)
                   /\ missing_sector' = Append(missing_sector, <<sym, sec>>)
                   /\ industries' = Append(industries, ind)
                   /\ missing_industry' = Append(missing_industry, <<sym, ind>>)
              [] outcome = "sector" ->
                   /\ sectors' = Append(sectors, na_s)
                   /\ industries' = Append(industries, na_i)
                   /\ UNCHANGED <<missing_sector, missing_industry>>
              [] outcome = "industry" ->
                   /\ sectors' = Append(Append(sectors, sec), na_s)
                   /\ missing_sector' = Append(missing_sector, <<sym, sec>>)
                   /\ industries' = Append(industries, na_i)
                   /\ UNCHANGED missing_industry
    /\ load_i' = load_i + 1
    /\ UNCHANGED <<main_vars, info, tickers, stock_info, load_pc, sel_vars, train_vars, def_vars, rate_vars>>

\* zip(keys of missing_sector, values of missing_sector, values of missing_industry)
\* appended to the file; zip stops at the shorter dictionary
WriteCache ==
    /\ load_pc = "loop"
    /\ load_i = Len(tickers)
    /\ LET n == IF Len(missing_sector) < Len(missing_industry)
                  THEN Len(missing_sector) ELSE Len(missing_industry)
           rows == [k \in 1..n |-> [symbol |-> missing_sector[k][1],
                                    sector |-> missing_sector[k][2],
                                    industry |-> missing_industry[k][2]]]
       IN stock_info' = stock_info \o rows
    /\ load_pc' = "loaded"
    /\ UNCHANGED <<main_vars, info, tickers, load_i, sectors, industries, missing_sector, missing_industry,
                   sel_vars, train_vars, def_vars, rate_vars>>

\* usectors .. sector_industries_id and the dictionary info of the main script
BuildHierarchy ==
    /\ load_pc = "loaded"
    /\ LET usectors == Unique(sectors)
           sectors_id == [p \in 1..Len(sectors) |-> IndexIn(usectors, sectors[p])]
           uindustries == Unique(industries)
           industries_idx == [k \in 1..Len(uindustries) |-> FirstIndex(industries, uindustries[k])]
           industries_id == [p \in 1..Len(industries) |-> IndexIn(uindustries, industries[p])]
           sector_industries_id == [k \in 1..Len(industries_idx) |-> sectors_id[industries_idx[k] + 1]]
       IN info' = [tt |-> <<>>, order_scale |-> <<>>,
                   num_sectors |-> Len(usectors), num_industries |-> Len(uindustries),
                   sector_industries_id |-> sector_industries_id,
                   industries_id |-> industries_id, sectors_id |-> sectors_id]
    /\ load_pc' = "indexed"
    /\ UNCHANGED <<main_vars, tickers, stock_info, load_i, sectors, industries, missing_sector,
                   missing_industry, sel_vars, train_vars, def_vars, rate_vars>>

LoadNext == LoadFromCache \/ LoadFromSource \/ WriteCache \/ BuildHierarchy

----------------------------------------------------------------------------
(* The main script: data load, order selection, final training, outputs    *)

MaxMainOrders == 4  \* candidates the main flow tries (np.arange(1, 14) cut short)

EstimationPlots == {"market_estimation.png", "sector_estimation.png",
                    "industry_estimation.png", "stock_estimation.png"}

Files == EstimationPlots \cup {"prediction_table.csv", "losses_decay.png", "stock_info.csv"}

Write(fs, names) == [f \in Files |-> IF f \in names THEN "written" ELSE fs[f]]

\* os.remove(name)
Remove(fs, name) == [fs EXCEPT ![name] = "removed"]

\* variant: the estimation plots are saved before the final training
MainSteps_PlotsFirst == <<"load", "select", "plots", "train", "table", "done">>

\* the blocks of the script in program order
MainSteps == <<"load", "select", "train", "plots", "table", "done">>

After(step) == MainSteps[(CHOOSE k \in 1..(Len(MainSteps) - 1) : MainSteps[k] = step) + 1]

\* variant: info is left as order_selection returned it
FinalInfo_Kept(inf, order, T) == inf

\* info['tt'] = ...; info['order_scale'] = ... with the selected order and t days
FinalInfo(inf, order, T) == WithBasis(inf, order, T)

MainIdle ==
    /\ args = [no_plots |-> FALSE, save_table |-> FALSE, plot_losses |-> FALSE]
    /\ files = [f \in Files |-> "untouched"]
    /\ model = <<>>
    /\ main_pc = "idle"

\* after cli.parse_args()
MainInit ==
    /\ info = EmptyInfo
    /\ args \in [no_plots : BOOLEAN, save_table : BOOLEAN, plot_losses : BOOLEAN]
    /\ files = [f \in Files |-> "untouched"]
    /\ model = <<>>
    /\ main_pc = "load"

\* data = load_data(...) raises (before or after it opened stock_info.csv), or
\* returns a series of t days; then info is built
\* and order_selection(data['logp'], info) starts with its default candidates
MainLoadData ==
    /\ main_pc = "load"
    /\ \/ /\ main_pc' = "aborted"
          /\ \E cache_opened \in BOOLEAN :
                files' = IF cache_opened THEN Write(files, {"stock_info.csv"}) ELSE files
          /\ UNCHANGED <<info, sel_vars>>
       \/ /\ \E T \in (Horizon + 1)..MaxDays : num_days' = T
          /\ info' = FlatInfo(1)
          /\ files' = Write(files, {"stock_info.csv"})
          /\ orders' = [j \in 1..MaxMainOrders |-> j]
          /\ sel_pc' = "loop"
          /\ main_pc' = After("load")
          /\ UNCHANGED <<sel_i, min_loss, min_order, count, stdout, sel_result, sel_logp, sel_scores>>
    /\ UNCHANGED <<args, model, train_vars, def_vars, rate_vars, load_vars>>

\* training raises inside an iteration of order_selection; nothing catches it
SelectionAborts ==
    /\ main_pc = "select"
    /\ sel_pc = "loop"
    /\ sel_i < Len(orders)
    /\ info' = WithBasis(info, orders[sel_i + 1], TruncatedDays(num_days, Horizon))
    /\ sel_pc' = "raised"
    /\ main_pc' = "aborted"
    /\ UNCHANGED <<orders, num_days, sel_i, min_loss, min_order, count, stdout, sel_result,
                   sel_logp, sel_scores, args, files, model,
                   train_vars, def_vars, rate_vars, load_vars>>

\* order = order_selection(...) has returned: the basis of the final training
MainBasis ==
    /\ main_pc = "select"
    /\ sel_pc = "returned"
    /\ info' = FinalInfo(info, sel_result[1], num_days)
    /\ main_pc' = After("select")
    /\ UNCHANGED <<args, files, model, sel_vars, train_vars, def_vars, rate_vars, load_vars>>

\* training(data['logp'], info, plot_losses=args.plot_losses): the optimization
\* raises, or it completes, the losses plot is saved on request and the fitted
\* parameters of the stock-level model come back
FinalTraining ==
    /\ main_pc = "train"
    /\ \/ /\ main_pc' = "aborted"
          /\ UNCHANGED <<files, model>>
       \/ /\ model' = DefineModel(info, "stock").m
          /\ files' = IF args.plot_losses THEN Write(files, {"losses_decay.png"}) ELSE files
          /\ main_pc' = After("train")
    /\ UNCHANGED <<info, args, sel_vars, train_vars, def_vars, rate_vars, load_vars>>

\* if not args.no_plots: the market, sector and industry plots are saved; the stock
\* plot is saved if a stock is off trend, else an existing one is removed
SavePlots ==
    /\ main_pc = "plots"
    /\ IF args.no_plots
         THEN files' = files
         ELSE LET saved == Write(files, EstimationPlots \ {"stock_estimation.png"})
              IN \E out_trend \in BOOLEAN, exists \in BOOLEAN :
                    files' = IF out_trend THEN Write(saved, {"stock_estimation.png"})
                             ELSE IF exists THEN Remove(saved, "stock_estimation.png")
                             ELSE saved
    /\ main_pc' = After("plots")
    /\ UNCHANGED <<info, args, model, sel_vars, train_vars, def_vars, rate_vars, load_vars>>

\* if args.save_table: prediction_table.csv is written
SaveTable ==
    /\ main_pc = "table"
    /\ files' = IF args.save_table THEN Write(files, {"prediction_table.csv"}) ELSE files
    /\ main_pc' = After("table")
    /\ UNCHANGED <<info, args, model, sel_vars, train_vars, def_vars, rate_vars, load_vars>>

MainNext ==
    \/ MainLoadData
    \/ SelIter
    \/ SelReturn
    \/ SelectionAborts
    \/ MainBasis
    \/ FinalTraining
    \/ SavePlots
    \/ SaveTable

----------------------------------------------------------------------------
(* Specifications                                                          *)

\* order_selection over every candidate list 1..n and every sequence of losses
InitSel == SelInit /\ TrainIdle /\ DefIdle /\ RateIdle /\ LoadIdle /\ MainIdle
SpecSel == InitSel /\ [][SelNext]_vars

\* one call of training
InitTrain == TrainInit /\ SelIdle /\ DefIdle /\ RateIdle /\ LoadIdle /\ MainIdle
SpecTrain == InitTrain /\ [][TrainNext]_vars

\* one call of define_model with an arbitrary level name
\* the rating step for every score vector
InitRate == RateInit /\ SelIdle /\ TrainIdle /\ DefIdle /\ LoadIdle /\ MainIdle
SpecRate == InitRate /\ [][RateNext]_vars

\* the stock-information loop of load_data followed by the hierarchy indices
InitHier == LoadInit /\ SelIdle /\ TrainIdle /\ DefIdle /\ RateIdle /\ MainIdle
SpecHier == InitHier /\ [][LoadNext]_vars

\* one run of the script
InitMain == MainInit /\ SelIdle /\ TrainIdle /\ DefIdle /\ RateIdle /\ LoadIdle
SpecMain == InitMain /\ [][MainNext]_vars

InitDefine == DefInit /\ SelIdle /\ TrainIdle /\ RateIdle /\ LoadIdle /\ MainIdle
SpecDefine == InitDefine /\ [][DefineModelCall]_vars

----------------------------------------------------------------------------
(* Properties of order_selection                                           *)

FloatLt(a, b) == FloatGt(b, a)

\* the smaller of two losses, a NaN operand being ignored (fmin)
FMin(a, b) == IF a.k = "nan" THEN b ELSE IF b.k = "nan" THEN a ELSE IF FloatGt(a, b) THEN b ELSE a

RECURSIVE BestSeen(_)
\* the best (smallest) loss among the first k printed losses
BestSeen(k) == IF k = 0 THEN NaN ELSE FMin(BestSeen(k - 1), stdout[k].loss)

HasNaN == \E k \in 1..Len(stdout) : stdout[k].loss.k = "nan"

\* candidate k did not improve on the best loss seen before it
FailedToImprove(k) == k > 1 /\ ~FloatLt(stdout[k].loss, BestSeen(k - 1))

LastThreeFailed ==
    /\ Len(stdout) >= Patience
    /\ \A k \in (Len(stdout) - Patience + 1)..Len(stdout) : FailedToImprove(k)

\* C1 (as claimed): once 3 consecutive candidates have failed to improve on the
\* best loss seen so far, the loop has stopped: no further candidate is evaluated.
C1_StopsAfterThreeFailures ==
    LastThreeFailed => (sel_pc # "loop" \/ sel_i = Len(orders))

\* the loss printed for the returned order
ReturnedLoss == stdout[CHOOSE k \in 1..Len(stdout) : <<stdout[k].order>> = sel_result].loss

\* C2 (as claimed): the returned order is one of the evaluated candidates and its
\* loss is the minimum of the evaluated losses (the minimum being taken either
\* with NaN ignored or with NaN propagated).
C2_ReturnsMinimumLoss ==
    sel_pc = "returned" =>
        /\ \E k \in 1..Len(stdout) : <<stdout[k].order>> = sel_result
        /\ \/ ReturnedLoss = BestSeen(Len(stdout))
           \/ HasNaN /\ ReturnedLoss = NaN

\* C3 (as claimed): among evaluated candidates of equal (comparable) loss the
\* first one is returned: no earlier candidate has the loss of the returned one.
C3_FirstOfTiesReturned ==
    sel_pc = "returned" =>
        \A j, k \in 1..Len(stdout) :
            (<<stdout[k].order>> = sel_result /\ j < k /\ stdout[k].loss.k # "nan")
                => stdout[j].loss # stdout[k].loss

\* C4 (as claimed): when no evaluated candidate has a finite loss,
\* order_selection does not return an order.
C4_NoFiniteLossFails ==
    sel_pc = "returned" => \E k \in 1..Len(stdout) : stdout[k].loss.k = "fin"

----------------------------------------------------------------------------
(* Properties of define_model                                              *)

RecognizedLevels == {"market", "sector", "industry", "stock"}

\* C5: a call of define_model with a level outside the four recognized names
\* raises and returns no model; a call with one of the four names returns a model
\* (its latent pairs and the observation node) without raising.
C5_UnknownLevelRaises ==
    def_result # <<>> =>
        IF def_level \in RecognizedLevels
          THEN def_result[1].raised = "" /\ Len(def_result[1].m) >= 3
          ELSE def_result[1].raised = "Exception" /\ def_result[1].m = <<>>

C5_Witness ==
    /\ def_result # <<>>
    /\ def_level = "country"
    /\ def_result[1].raised = "Exception"

----------------------------------------------------------------------------
(* Properties of training                                                  *)

SameValue(names) == \A p \in names : params'[p].val = params[p].val

\* C6: once a level's stage has finished, the later stages leave that level's
\* pair unchanged, and the tuple returned holds those values.
C6_CoarseLevelsFrozen ==
    [][ /\ train_pc \in {"sector", "industry", "stock", "return"} => SameValue({"phi_m", "psi_m"})
        /\ train_pc \in {"industry", "stock", "return"} => SameValue({"phi_s", "psi_s"})
        /\ train_pc \in {"stock", "return"} => SameValue({"phi_i", "psi_i"})
        /\ train_pc = "return" =>
              \A p \in {"phi_m", "psi_m", "phi_s", "psi_s", "phi_i", "psi_i"} :
                  train_result'[1][p] = params[p].val ]_vars

C6_Witness ==
    /\ train_pc = "done"
    /\ train_result[1]["phi_m"] = 1
    /\ train_result[1]["psi_m"] = 0
    /\ train_result[1]["phi_s"] = 0
    /\ train_result[1]["phi_i"] = 1
    /\ train_result[1]["phi"] = 0

\* C10: every stage runs the same number of optimizer steps, the four stages
\* together run at most num_steps steps, and a budget of 20000 gives 5000 each.
C10_EvenBudgetSplit ==
    train_pc = "done" =>
        /\ \A l \in {"sector", "industry", "stock"} : loss_len[l] = loss_len["market"]
        /\ loss_len["market"] + loss_len["sector"] + loss_len["industry"] + loss_len["stock"]
              <= num_steps
        /\ num_steps = 20000 => \A l \in {"market", "sector", "industry", "stock"} : loss_len[l] = 5000

C10_Witness ==
    /\ train_pc = "done"
    /\ num_steps = 20000
    /\ loss_len["stock"] = 5000
    /\ train_result[1]["phi"] = 1

----------------------------------------------------------------------------
(* Properties of the rating step                                           *)

\* the band of a score under the default thresholds, as the claim lists them
BandOf(x) ==
    IF x > 3 THEN "HIGHLY BELOW TREND"
    ELSE IF x > 2 THEN "BELOW TREND"
    ELSE IF x > -2 THEN "ALONG TREND"
    ELSE IF x > -3 THEN "ABOVE TREND"
    ELSE "HIGHLY ABOVE TREND"

\* C7: rating never fails; every stock appears exactly once in the ranking, the
\* ranking is by descending score, there is one rating per ranked stock and it is
\* the band of that stock's score; scores [4, 1, -1, -4] rate as in the example.
C7_RatingIsBandOfScore ==
    /\ rate_pc # "raised"
    /\ rate_pc = "rated" =>
        /\ Len(ranked_rating) = Len(scores)
        /\ \A s \in 1..Len(scores) : Cardinality({k \in 1..Len(rank) : rank[k] = s}) = 1
        /\ \A k \in 1..(Len(rank) - 1) : scores[rank[k]] >= scores[rank[k + 1]]
        /\ \A k \in 1..Len(rank) : ranked_rating[k] = BandOf(scores[rank[k]])
        /\ ranked_scores = <<4, 1, -1, -4>> =>
              ranked_rating = <<"HIGHLY BELOW TREND", "ALONG TREND", "ALONG TREND", "HIGHLY ABOVE TREND">>

C7_Witness ==
    /\ rate_pc = "rated"
    /\ scores = <<-1, 4, -4, 1>>
    /\ ranked_scores = <<4, 1, -1, -4>>
    /\ ranked_rating = <<"HIGHLY BELOW TREND", "ALONG TREND", "ALONG TREND", "HIGHLY ABOVE TREND">>

----------------------------------------------------------------------------
(* Properties of the hierarchy index construction                          *)

\* stock s is ticker s: row s of logp, entry s of the ID lists
StockPairs == {<<s, r>> \in (1..Len(tickers)) \X (1..Len(tickers)) : s # r}

ParentSector(s) == info.sector_industries_id[info.industries_id[s] + 1]

HasPlaceholder(s) == sectors[s].kind = "NA" \/ industries[s].kind = "NA"

\* C8 (as claimed): two stocks of the same industry name have the same industry ID
\* and the same parent sector ID, two stocks of different industry (sector) names
\* have different industry (sector) IDs, and a stock that carries a placeholder
\* label shares its sector ID and its industry ID with no other stock.
C8_HierarchyIdsFollowNames ==
    load_pc = "indexed" =>
        \A <<s, r>> \in StockPairs :
            /\ industries[s] = industries[r] =>
                  /\ info.industries_id[s] = info.industries_id[r]
                  /\ ParentSector(s) = ParentSector(r)
            /\ industries[s] # industries[r] => info.industries_id[s] # info.industries_id[r]
            /\ sectors[s] # sectors[r] => info.sectors_id[s] # info.sectors_id[r]
            /\ HasPlaceholder(s) =>
                  /\ info.sectors_id[s] # info.sectors_id[r]
                  /\ info.industries_id[s] # info.industries_id[r]

\* C9 (as claimed): for every stock the parent sector recorded for its industry is
\* the stock's own sector.
C9_ParentSectorIsOwnSector ==
    load_pc = "indexed" =>
        \A s \in 1..Len(tickers) : ParentSector(s) = info.sectors_id[s]

----------------------------------------------------------------------------
(* Properties of the stock-information loop of load_data                   *)

\* the for loop has run over every ticker: sectors and industries are the lists
\* load_data returns, the cache file is still the one that was read
LoopFinished == load_pc = "loop" /\ load_i = Len(tickers)

\* label is what the lookup of ticker p (one-based) produced: the sector (industry)
\* of its cache row, the answer of the data source recorded for it, or the
\* placeholder generated for its index
BelongsTo(label, p, column, recorded) ==
    \/ \E k \in CacheRows(tickers[p]) : stock_info[k][column] = label
    \/ <<tickers[p], label>> \in Range(recorded)
    \/ label = PlaceholderFor(p - 1)

\* C14 (as claimed): whatever the outcomes of the lookups, the returned sectors and
\* industries lists hold exactly one entry per ticker, and entry i is the one that
\* belongs to tickers[i].
C14_OneEntryPerTicker ==
    LoopFinished =>
        /\ Len(sectors) = Len(tickers)
        /\ Len(industries) = Len(tickers)
        /\ \A p \in 1..Len(tickers) :
              /\ BelongsTo(sectors[p], p, "sector", missing_sector)
              /\ BelongsTo(industries[p], p, "industry", missing_industry)

\* the rows a step appends to the cache file
AppendedRows == {stock_info'[k] : k \in (Len(stock_info) + 1)..Len(stock_info')}

\* C15 (as claimed): a step that touches the cache file keeps the existing rows as
\* they are, and every row it appends pairs a symbol with the sector and with the
\* industry that the data source reported for that same symbol, never a placeholder.
C15_CacheRowsPairOwnLabels ==
    [][/\ Len(stock_info') >= Len(stock_info)
       /\ SubSeq(stock_info', 1, Len(stock_info)) = stock_info
       /\ \A row \in AppendedRows :
             /\ <<row.symbol, row.sector>> \in Range(missing_sector)
             /\ <<row.symbol, row.industry>> \in Range(missing_industry)
             /\ row.sector.kind # "NA"
             /\ row.industry.kind # "NA"]_vars

----------------------------------------------------------------------------
(* Properties of the backtest of order_selection                           *)

\* the days order_selection holds out of a series of T days
HeldOut(T) == (T - Horizon + 1)..T

\* C12: for every candidate the loop has evaluated, training was handed exactly the
\* first T - h days (no held-out day), and column j of the scores (j = 1..h) compares
\* the forecast at day fraction 1 + j / (T - h) with held-out day T - h + j, so that
\* every held-out day enters exactly one column.
C12_BacktestUsesHeldOutDaysOnce ==
    sel_i > 0 =>
        /\ Range(sel_logp) = 1..(num_days - Horizon)
        /\ Range(sel_logp) \cap HeldOut(num_days) = {}
        /\ info.tt[1].cols = num_days - Horizon
        /\ Len(sel_scores) = Horizon
        /\ \A j \in 1..Horizon :
              sel_scores[j] = [step |-> j, t |-> num_days - Horizon, day |-> num_days - Horizon + j]
        /\ \A d \in HeldOut(num_days) :
              Cardinality({j \in 1..Len(sel_scores) : sel_scores[j].day = d}) = 1

\* several candidates evaluated on the longest series
C12_Witness ==
    /\ sel_i >= 2
    /\ num_days = MaxDays
    /\ Len(sel_logp) = MaxDays - Horizon
    /\ sel_scores[Horizon].day = MaxDays

----------------------------------------------------------------------------
(* Properties of the main script                                           *)

\* the node called name of a model
Node(m, name) == m[CHOOSE k \in 1..Len(m) : m[k].name = name]

\* the final training has returned
FinalTrainingDone == model # <<>>

\* C13: the final training fits a model whose basis and order_scale come from the
\* order that order_selection returned and from all T days, whatever basis
\* order_selection left in info.
C13_FinalTrainingUsesSelectedOrder ==
    FinalTrainingDone =>
        LET order == sel_result[1]
        IN /\ info.tt = <<Basis(order, num_days)>>
           /\ info.order_scale = <<OrderScale(order)>>
           /\ Node(model, "phi").shape[2] = order + 1
           /\ Node(model, "y").shape[2] = num_days

\* order_selection stopped on a candidate that is not the one it returned
C13_Witness ==
    /\ FinalTrainingDone
    /\ stdout[Len(stdout)].order # sel_result[1]
    /\ Node(model, "phi").shape[2] = sel_result[1] + 1

\* the files the run produces from the fitted model
OutputFiles == EstimationPlots \cup {"prediction_table.csv"}

\* C11: a run that aborted during the data load, the order selection or the final
\* training has written or modified no output file, and an output file is written
\* or modified only once the final training has completed.
C11_OutputsOnlyAfterFinalTraining ==
    /\ main_pc = "aborted" => \A f \in OutputFiles : files[f] = "untouched"
    /\ (\E f \in OutputFiles : files[f] # "untouched") => FinalTrainingDone

\* the final training aborted in a run that asked for the plots and the table
C11_Witness ==
    /\ main_pc = "aborted"
    /\ sel_pc = "returned"
    /\ info.tt = <<Basis(sel_result[1], num_days)>>
    /\ ~args.no_plots
    /\ args.save_table

====
